---------------------------- MODULE Spec2Model ----------------------------
(***************************************************************************)
(* Model of the VyaparSaathi backend test-utility layer                    *)
(* (packages/backend/tests/utils.py and strategies.py).                    *)
(*                                                                         *)
(* Every helper is a function of its arguments (and, for the generators,   *)
(* of the values drawn from Hypothesis and of the wall clock).  A          *)
(* behaviour is one call: Init chooses the helper, its arguments and the   *)
(* clock reading; the helper's action computes the outcome of the call,    *)
(* which is either a returned value or a raised exception.                 *)
(*                                                                         *)
(* Python values are tagged records:                                       *)
(*   None   [t |-> "none"]                                                 *)
(*   bool   [t |-> "bool",  b |-> TRUE]                                    *)
(*   int    [t |-> "int",   i |-> 3]                                       *)
(*   float  [t |-> "float", n |-> 1, d |-> 2]   the rational n/d, d > 0;   *)
(*          d = 0 encodes the non-finite floats: 1/0 is +inf, -1/0 is      *)
(*          -inf and 0/0 is NaN                                            *)
(*   str    [t |-> "str",   s |-> "abc"]                                   *)
(*   bytes  [t |-> "bytes", y |-> "abc"]                                   *)
(*   list   [t |-> "list",  xs |-> << ... >>]                              *)
(*   dict   [t |-> "dict",  kv |-> << [k |-> "key", v |-> value], ... >>]  *)
(*          in insertion order, keys distinct                              *)
(***************************************************************************)
EXTENDS Integers, Sequences, FiniteSets, TLC

VARIABLES
    now,      \* the reading of datetime.now(), as a day ordinal
    fn,       \* the helper being called
    args,     \* its arguments (for a generator: nothing, the draws are made by the call)
    result,   \* the outcome of the call
    pc,       \* "call" before the helper has run, "done" after
    earlier   \* the outcome of an earlier call with the same arguments, if one was made

vars == <<now, fn, args, result, pc, earlier>>

-----------------------------------------------------------------------------
(* Python values *)

None == [t |-> "none"]
PyBool(b) == [t |-> "bool", b |-> b]
PyInt(i) == [t |-> "int", i |-> i]
PyFloat(num, den) == [t |-> "float", n |-> num, d |-> den]
PyStr(s) == [t |-> "str", s |-> s]
PyBytes(s) == [t |-> "bytes", y |-> s]
PyList(xs) == [t |-> "list", xs |-> xs]
PyDict(kvs) == [t |-> "dict", kv |-> kvs]

Inf == PyFloat(1, 0)
NegInf == PyFloat(-1, 0)
NaN == PyFloat(0, 0)

\* Outcome of a call.
Return(v) == [kind |-> "return", val |-> v]
Raise(e) == [kind |-> "raise", exc |-> e]
Pending == [kind |-> "pending"]

\* isinstance(value, (int, float)): bool is a subclass of int.
IsNumber(x) == x.t \in {"bool", "int", "float"}

IsNaN(x) == x.t = "float" /\ x.d = 0 /\ x.n = 0

\* Numerator and denominator of a number; True is 1 and False is 0.
Num(x) == CASE x.t = "bool" -> (IF x.b THEN 1 ELSE 0)
            [] x.t = "int" -> x.i
            [] x.t = "float" -> x.n
Den(x) == IF x.t = "float" THEN x.d ELSE 1

\* a <= b and a == b on numbers: every comparison with NaN is false.
NumLe(a, b) ==
    /\ ~IsNaN(a)
    /\ ~IsNaN(b)
    /\ IF Den(a) = 0 /\ Den(b) = 0
       THEN Num(a) <= Num(b)
       ELSE Num(a) * Den(b) <= Num(b) * Den(a)

NumEq(a, b) == NumLe(a, b) /\ NumLe(b, a)

Abs(i) == IF i < 0 THEN -i ELSE i
Sign(i) == IF i < 0 THEN -1 ELSE IF i > 0 THEN 1 ELSE 0

RECURSIVE Gcd(_, _)
Gcd(a, b) == IF b = 0 THEN a ELSE Gcd(b, a % b)

\* The float n/d in lowest terms (a non-finite float keeps only its sign).
Float(num, den) ==
    IF den = 0 THEN PyFloat(Sign(num), 0)
    ELSE LET s == IF den < 0 THEN -1 ELSE 1
             g == Gcd(Abs(num), Abs(den))
         IN  PyFloat((s * num) \div g, (s * den) \div g)

\* Float arithmetic, IEEE-754 on the extended rationals.
FSub(a, b) ==
    IF IsNaN(a) \/ IsNaN(b) THEN NaN
    ELSE IF Den(a) = 0 /\ Den(b) = 0
         THEN (IF Num(a) = Num(b) THEN NaN ELSE Float(Num(a), 0))
    ELSE IF Den(a) = 0 THEN Float(Num(a), 0)
    ELSE IF Den(b) = 0 THEN Float(-Num(b), 0)
    ELSE Float(Num(a) * Den(b) - Num(b) * Den(a), Den(a) * Den(b))

FMul(a, b) ==
    IF IsNaN(a) \/ IsNaN(b) THEN NaN
    ELSE IF Den(a) = 0 \/ Den(b) = 0
         THEN Float(Sign(Num(a)) * Sign(Num(b)), 0)
    ELSE Float(Num(a) * Num(b), Den(a) * Den(b))

\* a / b for b # 0 (Python raises ZeroDivisionError before dividing by zero).
FDiv(a, b) ==
    IF IsNaN(a) \/ IsNaN(b) THEN NaN
    ELSE IF Den(a) = 0 /\ Den(b) = 0 THEN NaN
    ELSE IF Den(a) = 0 THEN Float(Sign(Num(a)) * Sign(Num(b)), 0)
    ELSE IF Den(b) = 0 THEN Float(0, 1)
    ELSE Float(Num(a) * Den(b), Den(a) * Num(b))

\* The / operator.
TrueDiv(a, b) ==
    IF NumEq(b, PyInt(0)) THEN Raise("ZeroDivisionError") ELSE Return(FDiv(a, b))

-----------------------------------------------------------------------------
(* Range validators, utils.py *)

\* min_value <= value <= max_value, with min_value and max_value numbers:
\* ordering a number against a str, bytes, None, list or dict raises TypeError.
is_in_range_strict(value, min_value, max_value) ==
    IF ~IsNumber(value) THEN Raise("TypeError")
    ELSE Return(PyBool(~NumLe(value, min_value) /\ ~IsNaN(value) /\ ~NumLe(max_value, value)))

is_in_range(value, min_value, max_value) ==
    IF ~IsNumber(value) THEN Raise("TypeError")
    ELSE Return(PyBool(NumLe(min_value, value) /\ NumLe(value, max_value)))

is_valid_confidence(confidence) == is_in_range(confidence, PyFloat(0, 1), PyFloat(1, 1))

MinHorizon == 7
MaxHorizon == 14

is_valid_forecast_horizon(horizon) == is_in_range(horizon, PyInt(MinHorizon), PyInt(MaxHorizon))

\* ((comparison - baseline) / baseline) * 100
percentage_formula(baseline, comparison) ==
    LET q == TrueDiv(FSub(comparison, baseline), baseline)
    IN  IF q.kind = "raise" THEN q ELSE Return(FMul(q.val, PyInt(100)))

calculate_percentage_difference_unguarded(baseline, comparison) ==
    percentage_formula(baseline, comparison)

calculate_percentage_difference(baseline, comparison) ==
    IF NumEq(baseline, PyInt(0))
    THEN Return(IF ~NumEq(comparison, PyInt(0)) THEN Inf ELSE PyFloat(0, 1))
    ELSE percentage_formula(baseline, comparison)

-----------------------------------------------------------------------------
(* Strings *)

DigitChars == <<"0", "1", "2", "3", "4", "5", "6", "7", "8", "9">>

Char(s, i) == IF 1 <= i /\ i <= Len(s) THEN SubSeq(s, i, i) ELSE ""
Slice(s, i, j) == IF i > j \/ i > Len(s) THEN "" ELSE SubSeq(s, i, IF j > Len(s) THEN Len(s) ELSE j)
IsDigit(c) == \E k \in 1..10 : DigitChars[k] = c
IsDigits(s) == \A i \in 1..Len(s) : IsDigit(Char(s, i))
DigitVal(c) == (CHOOSE k \in 1..10 : DigitChars[k] = c) - 1

\* int(s) for a string of ASCII digits.
RECURSIVE ParseInt(_)
ParseInt(s) ==
    IF Len(s) = 0 THEN 0
    ELSE ParseInt(Slice(s, 1, Len(s) - 1)) * 10 + DigitVal(Char(s, Len(s)))

\* The decimal digits of a natural number.
RECURSIVE NatStr(_)
NatStr(i) == IF i < 10 THEN DigitChars[i + 1] ELSE NatStr(i \div 10) \o DigitChars[(i % 10) + 1]

\* str(i) of an int.
IntStr(i) == IF i < 0 THEN "-" \o NatStr(-i) ELSE NatStr(i)

\* The digits after the decimal point of rem/den (den divides a power of ten).
RECURSIVE FracStr(_, _)
FracStr(rem, den) ==
    IF rem = 0 THEN ""
    ELSE DigitChars[((rem * 10) \div den) + 1] \o FracStr((rem * 10) % den, den)

\* str(x) of a float whose decimal expansion is finite and that repr() prints
\* in positional notation: 1.0, 1.5, -0.25, inf, -inf, nan.
FloatStr(x) ==
    IF x.d = 0
    THEN (IF x.n = 0 THEN "nan" ELSE IF x.n > 0 THEN "inf" ELSE "-inf")
    ELSE LET a == Abs(x.n)
             frac == FracStr(a % x.d, x.d)
         IN  (IF x.n < 0 THEN "-" ELSE "") \o NatStr(a \div x.d) \o "."
                 \o (IF frac = "" THEN "0" ELSE frac)

\* "%04d" and "%02d"
Pad(i, width) ==
    LET s == NatStr(i)
        RECURSIVE Zeros(_)
        Zeros(k) == IF k <= 0 THEN "" ELSE "0" \o Zeros(k - 1)
    IN  Zeros(width - Len(s)) \o s

\* s.replace(old, new) for a one-character old.
RECURSIVE Replace(_, _, _)
Replace(s, old, new) ==
    IF Len(s) = 0 THEN ""
    ELSE (IF Char(s, 1) = old THEN new ELSE Char(s, 1)) \o Replace(Slice(s, 2, Len(s)), old, new)

\* sub in s, for strings.
Contains(s, sub) ==
    \E i \in 1..(Len(s) - Len(sub) + 1) : Slice(s, i, i + Len(sub) - 1) = sub

\* sep.join(parts)
RECURSIVE Join(_, _)
Join(sep, parts) ==
    IF Len(parts) = 0 THEN ""
    ELSE IF Len(parts) = 1 THEN parts[1]
    ELSE parts[1] \o sep \o Join(sep, Tail(parts))

-----------------------------------------------------------------------------
(* Dates: datetime, timedelta(days=...), strftime and fromisoformat *)

IsLeap(y) == y % 4 = 0 /\ (y % 100 # 0 \/ y % 400 = 0)

DaysInMonth(y, m) ==
    IF m = 2 THEN (IF IsLeap(y) THEN 29 ELSE 28)
    ELSE IF m \in {4, 6, 9, 11} THEN 30 ELSE 31

\* Days before January 1st of year y, counting from 0001-01-01.
DaysBeforeYear(y) ==
    LET p == y - 1 IN p * 365 + (p \div 4) - (p \div 100) + (p \div 400)

RECURSIVE DaysBeforeMonth(_, _)
DaysBeforeMonth(y, m) == IF m = 1 THEN 0 ELSE DaysBeforeMonth(y, m - 1) + DaysInMonth(y, m - 1)

\* The proleptic Gregorian ordinal of a date (0001-01-01 is day 1).
Ymd2Ord(y, m, d) == DaysBeforeYear(y) + DaysBeforeMonth(y, m) + d

\* The date of an ordinal.
Ord2Ymd(n) ==
    LET y == CHOOSE yy \in ((n \div 366) + 1)..((n \div 365) + 1) :
                 DaysBeforeYear(yy) < n /\ n <= DaysBeforeYear(yy + 1)
        r == n - DaysBeforeYear(y)
        m == CHOOSE mm \in 1..12 :
                 DaysBeforeMonth(y, mm) < r /\ r <= DaysBeforeMonth(y, mm) + DaysInMonth(y, mm)
    IN  [year |-> y, month |-> m, day |-> r - DaysBeforeMonth(y, m)]

\* date.strftime("%d-%m-%Y"): a day-first format.
strftime_dmy(n) ==
    LET c == Ord2Ymd(n)
    IN  Pad(c.day, 2) \o "-" \o Pad(c.month, 2) \o "-" \o Pad(c.year, 4)

\* date.strftime("%Y-%m-%d")
strftime_ymd(n) ==
    LET c == Ord2Ymd(n)
    IN  Pad(c.year, 4) \o "-" \o Pad(c.month, 2) \o "-" \o Pad(c.day, 2)

\* date(year, month, day) is constructible (datetime.MINYEAR..MAXYEAR).
ValidYmd(y, m, d) ==
    /\ 1 <= y /\ y <= 9999
    /\ 1 <= m /\ m <= 12
    /\ 1 <= d /\ d <= DaysInMonth(y, m)

\* Two ASCII digits at position i of s, below limit.
TwoDigitsBelow(s, i, limit) ==
    /\ i + 1 <= Len(s)
    /\ IsDigits(Slice(s, i, i + 1))
    /\ ParseInt(Slice(s, i, i + 1)) < limit

\* HH, HH:MM or HH:MM:SS
ValidClock(t) ==
    /\ Len(t) \in {2, 5, 8}
    /\ TwoDigitsBelow(t, 1, 24)
    /\ Len(t) >= 5 => (Char(t, 3) = ":" /\ TwoDigitsBelow(t, 4, 60))
    /\ Len(t) = 8 => (Char(t, 6) = ":" /\ TwoDigitsBelow(t, 7, 60))

\* The time part: a clock reading, then an optional UTC offset +HH[:MM[:SS]].
ValidTime(t) ==
    LET signs == {i \in 1..Len(t) : Char(t, i) \in {"+", "-"}}
    IN  IF signs = {} THEN ValidClock(t)
        ELSE LET p == CHOOSE i \in signs : \A j \in signs : i <= j
             IN  ValidClock(Slice(t, 1, p - 1)) /\ ValidClock(Slice(t, p + 1, Len(t)))

\* datetime.fromisoformat(s) succeeds (it raises ValueError otherwise), for the
\* calendar-date forms of Python 3.11: YYYY-MM-DD or YYYYMMDD, optionally
\* followed by one separator character and a time HH[:MM[:SS]] with an optional
\* offset.  Week dates, the basic time format and fractional seconds are not
\* among the strings the model draws.
fromisoformat_ok(s) ==
    /\ Len(s) >= 8
    /\ IsDigits(Slice(s, 1, 4))
    /\ LET ext == Char(s, 5) = "-"
           dlen == IF ext THEN 10 ELSE 8
           mpos == IF ext THEN 6 ELSE 5
           dpos == IF ext THEN 9 ELSE 7
       IN  /\ Len(s) >= dlen
           /\ ext => Char(s, 8) = "-"
           /\ IsDigits(Slice(s, mpos, mpos + 1))
           /\ IsDigits(Slice(s, dpos, dpos + 1))
           /\ ValidYmd(ParseInt(Slice(s, 1, 4)), ParseInt(Slice(s, mpos, mpos + 1)),
                       ParseInt(Slice(s, dpos, dpos + 1)))
           /\ Len(s) > dlen => ValidTime(Slice(s, dlen + 2, Len(s)))

\* is_valid_date_string: a value without a replace method raises AttributeError,
\* which is caught; bytes.replace(str, str) raises TypeError, which is not.
is_valid_date_string(date_string) ==
    IF date_string.t = "str"
    THEN Return(PyBool(fromisoformat_ok(Replace(date_string.s, "Z", "+00:00"))))
    ELSE IF date_string.t = "bytes" THEN Raise("TypeError")
    ELSE Return(PyBool(FALSE))

-----------------------------------------------------------------------------
(* Dictionaries and str() *)

Keys(obj) == [i \in 1..Len(obj.kv) |-> obj.kv[i].k]
HasKey(obj, key) == \E i \in 1..Len(obj.kv) : obj.kv[i].k = key
Get(obj, key) == obj.kv[CHOOSE i \in 1..Len(obj.kv) : obj.kv[i].k = key].v

\* obj.get(key, default)
GetOr(obj, key, default) == IF HasKey(obj, key) THEN Get(obj, key) ELSE default

\* {key: value}
Single(key, value) == PyDict(<<[k |-> key, v |-> value]>>)

\* The value of a key the dict does not hold.
Absent == [t |-> "absent"]

\* The dict of the pairs whose value is not Absent.
MkDict(pairs) == PyDict(SelectSeq(pairs, LAMBDA p : p.v # Absent))

\* str(value)
PyStrOf(value) ==
    CASE value.t = "str" -> value.s
      [] value.t = "bool" -> (IF value.b THEN "True" ELSE "False")
      [] value.t = "int" -> IntStr(value.i)
      [] value.t = "float" -> FloatStr(value)
      [] value.t = "none" -> "None"
      [] value.t = "bytes" -> "b'" \o value.y \o "'"

\* key in obj: a dict is searched by key, a list by element, a str by
\* substring; the other types are not containers of str and raise TypeError.
PyIn(key, obj) ==
    CASE obj.t = "dict" -> Return(PyBool(HasKey(obj, key)))
      [] obj.t = "list" -> Return(PyBool(\E i \in 1..Len(obj.xs) : obj.xs[i] = PyStr(key)))
      [] obj.t = "str" -> Return(PyBool(Contains(obj.s, key)))
      [] OTHER -> Raise("TypeError")

\* a <= b where one side is known to be a number.
PyLe(a, b) ==
    IF IsNumber(a) /\ IsNumber(b) THEN Return(PyBool(NumLe(a, b))) ELSE Raise("TypeError")

-----------------------------------------------------------------------------
(* mock_dynamodb_item, utils.py *)

\* The isinstance chain in source order: isinstance(value, (int, float)) holds
\* of a bool, so the bool branch after it is never taken.
RECURSIVE format_value(_)
format_value(value) ==
    IF value.t = "str" THEN Single("S", value)
    ELSE IF IsNumber(value) THEN Single("N", PyStr(PyStrOf(value)))
    ELSE IF value.t = "bool" THEN Single("BOOL", value)
    ELSE IF value.t = "dict"
         THEN Single("M", PyDict([i \in 1..Len(value.kv) |->
                  [k |-> value.kv[i].k, v |-> format_value(value.kv[i].v)]]))
    ELSE IF value.t = "list"
         THEN Single("L", PyList([i \in 1..Len(value.xs) |-> format_value(value.xs[i])]))
    ELSE IF value.t = "none" THEN Single("NULL", PyBool(TRUE))
    ELSE Single("S", PyStr(PyStrOf(value)))

mock_dynamodb_item(item) ==
    Return(PyDict([i \in 1..Len(item.kv) |-> [k |-> item.kv[i].k, v |-> format_value(item.kv[i].v)]]))

-----------------------------------------------------------------------------
(* CSV helpers, utils.py *)

create_csv_content(headers, rows) ==
    LET header_line == Join(",", headers)
        data_lines == Join("\n", [i \in 1..Len(rows) |-> Join(",", rows[i])])
    IN  header_line \o "\n" \o data_lines

\* create_sales_csv taking the headers from the last record.
create_sales_csv_last_keys(records) ==
    IF Len(records) = 0 THEN Return(PyStr("date,sku,quantity\n"))
    ELSE LET headers == Keys(records[Len(records)])
             rows == [i \in 1..Len(records) |->
                        [j \in 1..Len(headers) |-> PyStrOf(GetOr(records[i], headers[j], PyStr("")))]]
         IN  Return(PyStr(create_csv_content(headers, rows)))

create_sales_csv(records) ==
    IF Len(records) = 0 THEN Return(PyStr("date,sku,quantity\n"))
    ELSE LET headers == Keys(records[1])
             rows == [i \in 1..Len(records) |->
                        [j \in 1..Len(headers) |-> PyStrOf(GetOr(records[i], headers[j], PyStr("")))]]
         IN  Return(PyStr(create_csv_content(headers, rows)))

-----------------------------------------------------------------------------
(* Field and shape checks, utils.py *)

\* all(field in obj and obj[field] is not None for field in required_fields),
\* from field number i on.  A str or a list that contains the field name is
\* then indexed by it, which raises TypeError.
RECURSIVE required_fields_from(_, _, _)
required_fields_from(obj, required_fields, i) ==
    IF i > Len(required_fields) THEN Return(PyBool(TRUE))
    ELSE LET found == PyIn(required_fields[i], obj)
         IN  IF found.kind = "raise" THEN found
             ELSE IF ~found.val.b THEN Return(PyBool(FALSE))
             ELSE IF obj.t # "dict" THEN Raise("TypeError")
             ELSE IF Get(obj, required_fields[i]) = None THEN Return(PyBool(FALSE))
             ELSE required_fields_from(obj, required_fields, i + 1)

has_required_fields(obj, required_fields) == required_fields_from(obj, required_fields, 1)

\* The assert statement on the outcome of its condition.
Check(cond) ==
    IF cond.kind = "raise" THEN cond
    ELSE IF cond.val.b THEN Return(None)
    ELSE Raise("AssertionError")

Passed(o) == o.kind = "return"

\* The body of the loop over forecast["predictions"], from prediction i on.
RECURSIVE check_predictions(_, _)
check_predictions(predictions, i) ==
    IF i > Len(predictions) THEN Return(None)
    ELSE LET prediction == predictions[i]
             c1 == Check(has_required_fields(prediction,
                             <<"date", "demandForecast", "lowerBound", "upperBound">>))
         IN  IF ~Passed(c1) THEN c1 ELSE
         LET c2 == Check(is_valid_date_string(Get(prediction, "date")))
         IN  IF ~Passed(c2) THEN c2 ELSE
         LET c3 == Check(PyLe(PyInt(0), Get(prediction, "demandForecast")))
         IN  IF ~Passed(c3) THEN c3 ELSE
         LET c4 == Check(PyLe(Get(prediction, "lowerBound"), Get(prediction, "demandForecast")))
         IN  IF ~Passed(c4) THEN c4 ELSE
         LET c5 == Check(PyLe(Get(prediction, "demandForecast"), Get(prediction, "upperBound")))
         IN  IF ~Passed(c5) THEN c5 ELSE check_predictions(predictions, i + 1)

Methodologies == {"ml", "pattern", "hybrid"}

\* x in [ ... ] for a list of str literals.
InLiterals(x, literals) == x.t = "str" /\ x.s \in literals

assert_forecast_result_valid(forecast) ==
    LET c1 == Check(has_required_fields(forecast,
                    <<"sku", "category", "predictions", "confidence", "methodology">>))
    IN  IF ~Passed(c1) THEN c1 ELSE
    LET c2 == Check(is_valid_confidence(Get(forecast, "confidence")))
    IN  IF ~Passed(c2) THEN c2 ELSE
    LET c3 == Check(Return(PyBool(InLiterals(Get(forecast, "methodology"), Methodologies))))
    IN  IF ~Passed(c3) THEN c3 ELSE
    LET c4 == Check(Return(PyBool(Get(forecast, "predictions").t = "list")))
    IN  IF ~Passed(c4) THEN c4 ELSE
    LET c5 == Check(Return(PyBool(Len(Get(forecast, "predictions").xs) > 0)))
    IN  IF ~Passed(c5) THEN c5 ELSE check_predictions(Get(forecast, "predictions").xs, 1)

Actions == {"reorder", "reduce", "maintain"}
Urgencies == {"low", "medium", "high"}

\* The three asserts on risk["recommendation"] with the urgency test left out.
check_recommendation_no_urgency(recommendation) ==
    LET c1 == Check(has_required_fields(recommendation,
                    <<"action", "suggestedQuantity", "urgency", "confidence">>))
    IN  IF ~Passed(c1) THEN c1 ELSE
    LET c2 == Check(Return(PyBool(InLiterals(Get(recommendation, "action"), Actions))))
    IN  IF ~Passed(c2) THEN c2 ELSE Check(is_valid_confidence(Get(recommendation, "confidence")))

\* The asserts on risk["recommendation"].
check_recommendation(recommendation) ==
    LET c1 == Check(has_required_fields(recommendation,
                    <<"action", "suggestedQuantity", "urgency", "confidence">>))
    IN  IF ~Passed(c1) THEN c1 ELSE
    LET c2 == Check(Return(PyBool(InLiterals(Get(recommendation, "action"), Actions))))
    IN  IF ~Passed(c2) THEN c2 ELSE
    LET c3 == Check(Return(PyBool(InLiterals(Get(recommendation, "urgency"), Urgencies))))
    IN  IF ~Passed(c3) THEN c3 ELSE Check(is_valid_confidence(Get(recommendation, "confidence")))

\* The two asserts on a stockoutRisk or overstockRisk.
check_risk_part(part, required_fields) ==
    LET c1 == Check(has_required_fields(part, required_fields))
    IN  IF ~Passed(c1) THEN c1 ELSE Check(is_valid_confidence(Get(part, "probability")))

assert_risk_assessment_valid(risk) ==
    LET c1 == Check(has_required_fields(risk,
                    <<"sku", "category", "currentStock", "stockoutRisk", "overstockRisk",
                      "recommendation">>))
    IN  IF ~Passed(c1) THEN c1 ELSE
    LET c2 == check_risk_part(Get(risk, "stockoutRisk"),
                              <<"probability", "daysUntilStockout", "potentialLostSales">>)
    IN  IF ~Passed(c2) THEN c2 ELSE
    LET c3 == check_risk_part(Get(risk, "overstockRisk"),
                              <<"probability", "excessUnits", "carryingCost">>)
    IN  IF ~Passed(c3) THEN c3 ELSE check_recommendation(Get(risk, "recommendation"))

-----------------------------------------------------------------------------
(* JSON and assert_api_response, utils.py *)

\* json.dumps(value) with the default separators.
RECURSIVE json_dumps(_)
json_dumps(value) ==
    CASE value.t = "none" -> "null"
      [] value.t = "bool" -> (IF value.b THEN "true" ELSE "false")
      [] value.t = "int" -> IntStr(value.i)
      [] value.t = "float" ->
            (IF value.d # 0 THEN FloatStr(value)
             ELSE IF value.n = 0 THEN "NaN" ELSE IF value.n > 0 THEN "Infinity" ELSE "-Infinity")
      [] value.t = "str" -> "\"" \o value.s \o "\""
      [] value.t = "list" ->
            "[" \o Join(", ", [i \in 1..Len(value.xs) |-> json_dumps(value.xs[i])]) \o "]"
      [] value.t = "dict" ->
            "{" \o Join(", ", [i \in 1..Len(value.kv) |->
                        "\"" \o value.kv[i].k \o "\": " \o json_dumps(value.kv[i].v)]) \o "}"

\* The documents json.loads is given: the texts of these values, and texts
\* that are no JSON at all.
JsonValues ==
    {None, PyInt(5), PyStr("a"), PyList(<<PyStr("a")>>), PyDict(<<>>),
     Single("a", PyInt(1)), PyDict(<<[k |-> "a", v |-> None], [k |-> "b", v |-> PyStr("x")]>>)}

\* json.loads(text): the value whose text it is; JSONDecodeError (a ValueError)
\* when it is the text of none.
json_loads(text) ==
    IF \E x \in JsonValues : json_dumps(x) = text
    THEN Return(CHOOSE x \in JsonValues : json_dumps(x) = text)
    ELSE Raise("JSONDecodeError")

\* a == b
PyEq(a, b) == IF IsNumber(a) /\ IsNumber(b) THEN NumEq(a, b) ELSE a = b

\* The loop over expected_body_keys, from key number i on.
RECURSIVE check_body_keys(_, _, _)
check_body_keys(body, expected_body_keys, i) ==
    IF i > Len(expected_body_keys) THEN Return(body)
    ELSE LET c == Check(PyIn(expected_body_keys[i], body))
         IN  IF ~Passed(c) THEN c ELSE check_body_keys(body, expected_body_keys, i + 1)

\* expected_body_keys is a list or None.
assert_api_response(response, expected_status, expected_body_keys) ==
    LET c1 == Check(PyIn("statusCode", response))
    IN  IF ~Passed(c1) THEN c1 ELSE
    IF response.t # "dict" THEN Raise("TypeError") ELSE
    LET c2 == Check(Return(PyBool(PyEq(Get(response, "statusCode"), expected_status))))
    IN  IF ~Passed(c2) THEN c2 ELSE
    LET c3 == Check(PyIn("body", response))
    IN  IF ~Passed(c3) THEN c3 ELSE
    LET raw == Get(response, "body")
        body == IF raw.t = "str" THEN json_loads(raw.s) ELSE Return(raw)
    IN  IF ~Passed(body) THEN body
        ELSE IF expected_body_keys.t = "list"
             THEN check_body_keys(body.val, [i \in 1..Len(expected_body_keys.xs) |->
                                                expected_body_keys.xs[i].s], 1)
             ELSE body

-----------------------------------------------------------------------------
(* Mock builders, utils.py *)

\* A datetime, at the resolution of the clock of the model: its day ordinal.
PyDateTime(ordinal) == [t |-> "datetime", o |-> ordinal]

\* An instance of a class without __eq__, given by its attributes.
PyObject(attributes) == [t |-> "object", at |-> attributes]

\* bool(value)
Truthy(value) ==
    CASE value.t = "none" -> FALSE
      [] value.t = "bool" -> value.b
      [] value.t = "int" -> value.i # 0
      [] value.t = "float" -> ~(value.n = 0 /\ value.d # 0)
      [] value.t = "str" -> value.s # ""
      [] value.t = "list" -> Len(value.xs) > 0
      [] value.t = "dict" -> Len(value.kv) > 0

\* value or default
PyOr(value, default) == IF Truthy(value) THEN value ELSE default

create_api_gateway_event(body, path_parameters, query_parameters, headers, http_method, path) ==
    Return(PyDict(<<
        [k |-> "httpMethod", v |-> http_method],
        [k |-> "path", v |-> path],
        [k |-> "pathParameters", v |-> PyOr(path_parameters, PyDict(<<>>))],
        [k |-> "queryStringParameters", v |-> PyOr(query_parameters, PyDict(<<>>))],
        [k |-> "headers", v |-> PyOr(headers, Single("Content-Type", PyStr("application/json")))],
        [k |-> "body", v |-> IF Truthy(body) THEN PyStr(json_dumps(body)) ELSE None],
        [k |-> "requestContext",
         v |-> PyDict(<< [k |-> "requestId", v |-> PyStr("test-request-id")],
                         [k |-> "authorizer",
                          v |-> Single("claims", Single("sub", PyStr("test-user-123")))] >>)],
        [k |-> "isBase64Encoded", v |-> PyBool(FALSE)] >>))

\* The MockLambdaContext the call builds; get_remaining_time_in_millis() reads
\* _remaining_time, which nothing changes.
create_lambda_context(function_name, memory_limit, timeout) ==
    Return(PyObject(<<
        [k |-> "function_name", v |-> function_name],
        [k |-> "memory_limit_in_mb", v |-> memory_limit],
        [k |-> "invoked_function_arn",
         v |-> PyStr("arn:aws:lambda:us-east-1:123456789012:function:" \o PyStrOf(function_name))],
        [k |-> "aws_request_id", v |-> PyStr("test-request-id")],
        [k |-> "log_group_name", v |-> PyStr("/aws/lambda/" \o PyStrOf(function_name))],
        [k |-> "log_stream_name", v |-> PyStr("test-stream")],
        [k |-> "_remaining_time", v |-> PyInt(timeout.i * 1000)] >>))

\* start_date + timedelta(days=i), formatted, for i in range(days).
generate_date_range(start_date, days) ==
    Return(PyList([i \in 1..days.i |-> PyStr(strftime_ymd(start_date.o + i - 1))]))

\* datetime.now() is the reading `now` of the clock.  content.encode is
\* evaluated before len(content): a content without encode raises AttributeError.
mock_s3_object(bucket, key, content) ==
    IF content.t # "str" THEN Raise("AttributeError")
    ELSE Return(PyDict(<<
        [k |-> "Bucket", v |-> bucket],
        [k |-> "Key", v |-> key],
        [k |-> "Body", v |-> PyBytes(content.s)],
        [k |-> "ContentLength", v |-> PyInt(Len(content.s))],
        [k |-> "ContentType", v |-> PyStr("text/csv")],
        [k |-> "LastModified", v |-> PyDateTime(now)] >>))

-----------------------------------------------------------------------------
(* Hypothesis strategies, strategies.py *)

BUSINESS_TYPES == {"grocery", "apparel", "electronics", "general"}
STORE_SIZES == {"small", "medium", "large"}
REGIONS == {"north", "south", "east", "west", "central"}
RISK_TOLERANCES == {"conservative", "moderate", "aggressive"}
DATA_QUALITIES == {"poor", "fair", "good"}

\* The floats the model draws from: a few halves in and around [0, 5], and a
\* value that is far out.
FloatSamples == {Float(k, 2) : k \in {-1, 0, 2, 5, 10}} \cup {Float(10001, 1)}

\* st.floats(min_value=lo, max_value=hi): no NaN and nothing out of the bounds.
st_floats(lo, hi) == {x \in FloatSamples : NumLe(lo, x) /\ NumLe(x, hi)}

\* st.lists(st.sampled_from(S), min_size=lo, max_size=hi, unique=True)
st_unique_lists(S, lo, hi) ==
    UNION {{xs \in [1..len -> S] : \A i, j \in 1..len : i # j => xs[i] # xs[j]} : len \in lo..hi}

\* st.lists(elements, min_size=lo, max_size=hi)
st_lists(S, lo, hi) == UNION {[1..len -> S] : len \in lo..hi}

\* st.text(alphabet=characters(whitelist_categories=("Lu", "Nd")), min_size=5,
\* max_size=10): a shortest and a longest text.
sku_draws == {"SKU01", "0123456789"}
MinSkuSize == 5

MaxDaysAgo == 730
MinQuantity == 1
MaxQuantity == 1000

\* st.integers(min_value=0, max_value=730)
days_ago_draws == 0..MaxDaysAgo

\* st.integers(min_value=1, max_value=1000): both ends and a value inside.
quantity_draws == {q \in {-1, 0, 1, 2, 1000, 1001} : MinQuantity <= q /\ q <= MaxQuantity}

\* The record built by sales_record_strategy from its draws.
sales_record(clock, days_ago, sku, quantity, category, price) ==
    LET date == clock - days_ago
    IN  PyDict(<< [k |-> "date", v |-> PyStr(strftime_ymd(date))],
                  [k |-> "sku", v |-> PyStr(sku)],
                  [k |-> "quantity", v |-> PyInt(quantity)],
                  [k |-> "category", v |-> PyStr(category)],
                  [k |-> "price", v |-> price] >>)

\* Every record sales_record_strategy can produce at the clock reading, over
\* the given days_ago.
sales_records(clock, days) ==
    {sales_record(clock, days_ago, sku, quantity, category, price) :
        days_ago \in days, sku \in sku_draws, quantity \in quantity_draws,
        category \in {"grocery", "beauty"},
        price \in st_floats(PyFloat(1, 1), PyFloat(10000, 1))}

\* The texts the model draws from: short ones, and dates and skus that are valid.
TextSamples == {"", "Z", "A1", "2023", "20231", "2023Z", "SKU01", "invalid-date", "20231001", "2023-10-01"}

\* st.text(max_size=max_size)
st_text(max_size) == {text \in TextSamples : Len(text) <= max_size}

\* st.integers(max_value=max_value)
st_integers_upto(max_value) == {i \in {-1000, -1, 0, 1, 2, 1000} : i <= max_value}

\* st.floats(allow_nan=True)
st_floats_any == FloatSamples \cup {NaN, Inf, NegInf}

InvalidDateMaxSize == 5
InvalidSkuMaxSize == 2
InvalidQuantityMax == 0

\* st.one_of(st.just("invalid-date"), st.text(max_size=5), st.none())
invalid_date_draws ==
    {PyStr("invalid-date")} \cup {PyStr(text) : text \in st_text(InvalidDateMaxSize)} \cup {None}

\* st.one_of(st.text(max_size=2), st.none())
invalid_sku_draws == {PyStr(text) : text \in st_text(InvalidSkuMaxSize)} \cup {None}

\* st.one_of(st.integers(max_value=0), st.floats(allow_nan=True), st.none())
invalid_quantity_draws ==
    {PyInt(i) : i \in st_integers_upto(InvalidQuantityMax)} \cup st_floats_any \cup {None}

\* A strategy that starts from a valid record and overwrites the fields picked
\* by the booleans, instead of starting from the empty record.
invalid_sales_records_overwriting ==
    {PyDict(<< [k |-> "date", v |-> date], [k |-> "sku", v |-> sku],
               [k |-> "quantity", v |-> quantity] >>) :
        date \in invalid_date_draws \cup {PyStr("2023-10-01")},
        sku \in invalid_sku_draws \cup {PyStr("SKU01")},
        quantity \in invalid_quantity_draws \cup {PyInt(1)}}

\* Every record invalid_sales_record_strategy can produce: each field is set
\* only when its draw(st.booleans()) is True, in the order date, sku, quantity.
invalid_sales_records ==
    {MkDict(<< [k |-> "date", v |-> date], [k |-> "sku", v |-> sku],
               [k |-> "quantity", v |-> quantity] >>) :
        date \in invalid_date_draws \cup {Absent},
        sku \in invalid_sku_draws \cup {Absent},
        quantity \in invalid_quantity_draws \cup {Absent}}

\* st.floats(min_value=0.0, max_value=5.0)
multiplier_draws_from_zero == st_floats(PyFloat(0, 1), PyFloat(5, 1))

\* st.floats(min_value=1.0, max_value=5.0)
multiplier_draws == st_floats(PyFloat(1, 1), PyFloat(5, 1))

\* st.lists(st.sampled_from(REGIONS), min_size=1, max_size=3, unique=True)
region_draws == st_unique_lists(REGIONS, 1, 3)

\* Lower-case of the festival names.
Lower(name) ==
    CASE name = "Diwali" -> "diwali"
      [] name = "Eid" -> "eid"
      [] name = "Holi" -> "holi"
      [] name = "Christmas" -> "christmas"
      [] name = "Pongal" -> "pongal"
      [] name = "Onam" -> "onam"
      [] name = "Durga Puja" -> "durga puja"

\* The event built by festival_event_strategy from its draws.
festival_event(clock, days_ahead, id_name, name, region, grocery, apparel, electronics, duration, preparation) ==
    LET date == clock + days_ahead
    IN  PyDict(<< [k |-> "festivalId",
                   v |-> PyStr(Lower(id_name) \o "-" \o NatStr(Ord2Ymd(date).year))],
                  [k |-> "name", v |-> PyStr(name)],
                  [k |-> "date", v |-> PyStr(strftime_ymd(date))],
                  [k |-> "region", v |-> PyList([i \in 1..Len(region) |-> PyStr(region[i])])],
                  [k |-> "category", v |-> PyStr("festival")],
                  [k |-> "demandMultipliers",
                   v |-> PyDict(<< [k |-> "grocery", v |-> grocery],
                                   [k |-> "apparel", v |-> apparel],
                                   [k |-> "electronics", v |-> electronics] >>)],
                  [k |-> "duration", v |-> PyInt(duration)],
                  [k |-> "preparationDays", v |-> PyInt(preparation)] >>)

\* st.integers(min_value=7, max_value=15)
horizon_draws_to_15 == MinHorizon..(MaxHorizon + 1)

\* st.integers(min_value=7, max_value=14)
horizon_draws == MinHorizon..MaxHorizon

\* The profile built by user_profile_strategy from its draws; the clock is read
\* at midnight, so isoformat() prints no microseconds.
user_profile(clock, user, name, type, city, state, region, size, has_data, quality, horizon, tolerance) ==
    PyDict(<< [k |-> "userId", v |-> PyStr("user-" \o user)],
              [k |-> "businessInfo",
               v |-> PyDict(<< [k |-> "name", v |-> PyStr(name)],
                               [k |-> "type", v |-> PyStr(type)],
                               [k |-> "location",
                                v |-> PyDict(<< [k |-> "city", v |-> PyStr(city)],
                                                [k |-> "state", v |-> PyStr(state)],
                                                [k |-> "region", v |-> PyStr(region)] >>)],
                               [k |-> "size", v |-> PyStr(size)] >>)],
              [k |-> "dataCapabilities",
               v |-> PyDict(<< [k |-> "hasHistoricalData", v |-> PyBool(has_data)],
                               [k |-> "dataQuality", v |-> PyStr(quality)],
                               [k |-> "lastUpdated",
                                v |-> PyStr(strftime_ymd(clock) \o "T00:00:00")] >>)],
              [k |-> "preferences",
               v |-> PyDict(<< [k |-> "forecastHorizon", v |-> PyInt(horizon)],
                               [k |-> "riskTolerance", v |-> PyStr(tolerance)] >>)] >>)

-----------------------------------------------------------------------------
(* The arguments the calls are made with *)

\* Readings of datetime.now(): the last day of a leap year, the first day
\* after a century year that is no leap year, and an ordinary day.
Clock == {Ymd2Ord(2024, 12, 31), Ymd2Ord(2101, 1, 1), Ymd2Ord(2026, 11, 1)}

MaxInt == 3
FineDen == 10000
Span == 8
MaxFields == 2
MaxItemKeys == 2
MaxNested == 2
MaxRecords == 2
MaxListLen == 2
MaxPredictions == 2
MaxDays == 3

NonNumbers == {None, PyStr("high"), PyStr(""), PyBytes("1"), PyList(<<>>), PyDict(<<>>)}

Numbers ==
    {PyInt(i) : i \in (-MaxInt)..MaxInt}
        \cup {Float(k, 4) : k \in (-4 * MaxInt)..(4 * MaxInt)}
        \cup {Float(k, FineDen) : k \in (-MaxInt)..MaxInt}
        \cup {Float(FineDen + k, FineDen) : k \in (-MaxInt)..MaxInt}
        \cup {NaN, Inf, NegInf, PyBool(TRUE), PyBool(FALSE)}

ConfidenceInputs == Numbers \cup NonNumbers

HorizonInputs ==
    {PyInt(i) : i \in (MinHorizon - Span)..(MaxHorizon + Span)}
        \cup {Float(k, 2) : k \in (2 * MinHorizon - 2)..(2 * MaxHorizon + 2)}
        \cup {NaN, Inf, NegInf, PyBool(TRUE)}
        \cup NonNumbers

PercentageInputs ==
    {PyInt(i) : i \in (-MaxInt)..(MaxInt + 2)}
        \cup {Float(k, 2) : k \in (-MaxInt)..MaxInt}
        \cup {NaN, Inf, NegInf, PyBool(TRUE), PyBool(FALSE)}

DateInputs ==
    {PyStr(x) : x \in {"2023-10-01", "20231001", "2024-02-29", "2023-02-29", "2023-13-01",
                       "2023-10-32", "2023-1-01", "0000-01-01", "invalid-date", "", "Z",
                       "2023-10-01T00:00:00Z", "2023-10-01Z", "2023-10-01T10:30:00+05:30",
                       "2023-10-01T24:00:00", "2023-10-01T00:00:00+24:00", "2023-10-01x"}}
        \cup {None, PyInt(20231001), PyFloat(3, 2), PyBool(TRUE), PyList(<<>>), PyDict(<<>>),
              PyBytes("2023-10-01")}

FieldNames == {"a", "b"}
FieldValues == {PyInt(1), PyInt(0), PyStr(""), PyBool(FALSE), None, Absent}

FieldObjects ==
    {MkDict(<<[k |-> "a", v |-> x], [k |-> "b", v |-> y]>>) : x, y \in FieldValues}
        \cup {None, PyInt(5), PyStr("xyz"), PyStr("abc"), PyBytes("a"), PyList(<<>>),
              PyList(<<PyStr("a")>>), PyList(<<PyInt(1)>>)}

RequiredFieldsInputs == {<<obj, fields>> : obj \in FieldObjects, fields \in st_lists(FieldNames, 0, MaxFields)}

\* Values without nesting, and with one level of it.
Scalars == {PyInt(1), PyStr("x"), PyBool(TRUE), PyBool(FALSE), None, PyFloat(3, 2)}
Nested ==
    Scalars
        \cup {PyList(xs) : xs \in st_lists(Scalars, 0, MaxNested)}
        \cup {Single(key, x) : key \in {"k"}, x \in Scalars}

ExampleItem ==
    PyDict(<< [k |-> "a", v |-> PyInt(1)], [k |-> "b", v |-> PyStr("x")],
              [k |-> "c", v |-> PyBool(TRUE)], [k |-> "d", v |-> None] >>)

ItemInputs ==
    {ExampleItem, PyDict(<<>>)}
        \cup {Single(key, x) : key \in {"a"}, x \in Nested}
        \cup {PyDict([i \in 1..Len(xs) |-> [k |-> <<"a", "b", "c", "d">>[i], v |-> xs[i]]]) :
                xs \in st_lists(Scalars, 1, MaxItemKeys)}

ExampleRecord ==
    PyDict(<< [k |-> "date", v |-> PyStr("2023-10-01")], [k |-> "sku", v |-> PyStr("SKU001")],
              [k |-> "quantity", v |-> PyInt(10)] >>)

CsvRecords ==
    {ExampleRecord}
        \cup {MkDict(<<[k |-> "sku", v |-> x], [k |-> "date", v |-> y], [k |-> "price", v |-> z]>>) :
                x \in {PyStr("SKU002"), Absent}, y \in {PyStr("2023-10-02"), None, Absent},
                z \in {PyFloat(5, 2), PyInt(-3), Absent}}

CsvInputs == st_lists(CsvRecords, 0, MaxRecords)

\* A prediction with the given fields.
Prediction(date, forecast, lower, upper) ==
    MkDict(<< [k |-> "date", v |-> date], [k |-> "demandForecast", v |-> forecast],
              [k |-> "lowerBound", v |-> lower], [k |-> "upperBound", v |-> upper] >>)

GoodDate == PyStr("2023-10-01")

\* A few predictions, valid and not.
FewPredictions ==
    { Prediction(GoodDate, PyInt(10), PyInt(8), PyFloat(25, 2)),
      Prediction(GoodDate, PyInt(10), PyInt(11), PyInt(12)),
      PyInt(5) }

\* Predictions that differ from a valid one in one field, and values that are
\* no predictions at all.
PredictionInputs ==
    FewPredictions
        \cup {Prediction(date, PyInt(10), PyInt(8), PyInt(12)) :
                date \in {PyStr("2023-10-01T00:00:00Z"), PyStr("2023-13-01"), PyStr("invalid-date"),
                          None, Absent, PyInt(20231001), PyBytes("2023-10-01")}}
        \cup {Prediction(GoodDate, x, PyInt(-2), PyInt(12)) :
                x \in {PyInt(0), PyInt(-1), PyFloat(-1, 2), NaN, PyStr("10"), None, Absent}}
        \cup {Prediction(GoodDate, PyInt(10), x, PyInt(12)) :
                x \in {PyInt(10), PyFloat(21, 2), NaN, PyStr("8"), None, Absent}}
        \cup {Prediction(GoodDate, PyInt(10), PyInt(8), x) :
                x \in {PyInt(10), PyFloat(19, 2), Inf, PyStr("12"), None, Absent}}
        \cup {Prediction(GoodDate, PyInt(0), PyInt(0), PyInt(0)), None, PyStr("date"), PyStr("x")}

Forecast(sku, category, predictions, confidence, methodology) ==
    MkDict(<< [k |-> "sku", v |-> sku], [k |-> "category", v |-> category],
              [k |-> "predictions", v |-> predictions], [k |-> "confidence", v |-> confidence],
              [k |-> "methodology", v |-> methodology] >>)

\* Up to n copies of a valid prediction.
ValidRun(n) == {[i \in 1..k |-> Prediction(GoodDate, PyInt(10), PyInt(8), PyFloat(25, 2))] : k \in 0..n}

\* Lists of predictions in which any one prediction, at any place, is arbitrary.
PredictionLists ==
    {before \o <<p>> \o after :
        p \in PredictionInputs,
        before \in ValidRun(MaxPredictions - 1),
        after \in ValidRun(MaxPredictions - 1)}

ForecastInputs ==
    {Forecast(PyStr("SKU001"), PyStr("grocery"), PyList(ps), PyFloat(1, 2), PyStr("ml")) :
        ps \in {xs \in PredictionLists : Len(xs) <= MaxPredictions}}
    \cup
    {Forecast(sku, category, predictions, confidence, methodology) :
        sku \in {PyStr("SKU001"), None},
        category \in {PyStr("grocery"), Absent},
        predictions \in {PyList(ps) : ps \in st_lists(FewPredictions, 0, MaxPredictions)}
                          \cup {None, Absent, PyStr("abc"), PyDict(<<>>)},
        confidence \in {PyFloat(0, 1), PyInt(1), Float(FineDen + 1, FineDen), Float(-1, FineDen),
                        PyStr("high"), None},
        methodology \in {PyStr("pattern"), PyStr("hybrid"), PyStr("arima"), PyInt(1)}}
    \cup {None, PyInt(5), PyStr("sku"), PyList(<<>>)}

StockoutRisk(probability, days, lost) ==
    MkDict(<< [k |-> "probability", v |-> probability], [k |-> "daysUntilStockout", v |-> days],
              [k |-> "potentialLostSales", v |-> lost] >>)

OverstockRisk(probability, units, cost) ==
    MkDict(<< [k |-> "probability", v |-> probability], [k |-> "excessUnits", v |-> units],
              [k |-> "carryingCost", v |-> cost] >>)

Recommendation(action, quantity, urgency, confidence) ==
    MkDict(<< [k |-> "action", v |-> action], [k |-> "suggestedQuantity", v |-> quantity],
              [k |-> "urgency", v |-> urgency], [k |-> "confidence", v |-> confidence] >>)

Probabilities == {PyFloat(0, 1), PyInt(1), Float(FineDen + 1, FineDen), PyStr("0.5"), None}

StockoutInputs ==
    {StockoutRisk(pr, PyInt(3), PyInt(0)) : pr \in Probabilities \cup {Absent}}
        \cup {StockoutRisk(PyFloat(1, 2), PyInt(3), x) : x \in {None, Absent}}
        \cup {None, PyInt(5), PyStr("probability")}

OverstockInputs ==
    {OverstockRisk(pr, PyInt(0), PyFloat(3, 2)) : pr \in Probabilities}
        \cup {OverstockRisk(PyFloat(1, 2), x, PyFloat(3, 2)) : x \in {None, Absent}}
        \cup {PyList(<<>>)}

RecommendationInputs ==
    {Recommendation(action, PyInt(20), urgency, PyFloat(1, 2)) :
        action \in {PyStr("reorder"), PyStr("reduce"), PyStr("maintain"), PyStr("buy"), None},
        urgency \in {PyStr("low"), PyStr("medium"), PyStr("high"), PyStr("urgent"), PyInt(1)}}
        \cup {Recommendation(PyStr("reorder"), x, PyStr("low"), PyFloat(1, 2)) : x \in {None, Absent}}
        \cup {Recommendation(PyStr("reorder"), PyInt(0), PyStr("low"), pr) :
                pr \in Probabilities \cup {Float(-1, FineDen), Absent}}
        \cup {None, PyStr("action")}

Risk(sku, category, stock, stockout, overstock, recommendation) ==
    MkDict(<< [k |-> "sku", v |-> sku], [k |-> "category", v |-> category],
              [k |-> "currentStock", v |-> stock], [k |-> "stockoutRisk", v |-> stockout],
              [k |-> "overstockRisk", v |-> overstock],
              [k |-> "recommendation", v |-> recommendation] >>)

RiskInputs ==
    {Risk(sku, PyStr("grocery"), stock, stockout, overstock, recommendation) :
        sku \in {PyStr("SKU001"), Absent},
        stock \in {PyInt(0), None},
        stockout \in StockoutInputs \cup {Absent},
        overstock \in OverstockInputs,
        recommendation \in RecommendationInputs}
    \cup {None, PyInt(5), PyStr("sku")}

Response(status, body) ==
    MkDict(<<[k |-> "statusCode", v |-> status], [k |-> "body", v |-> body]>>)

ResponseInputs ==
    {<<Response(status, body), PyInt(200), keys>> :
        status \in {PyInt(200), PyInt(404), PyStr("200"), Absent},
        body \in {PyStr(json_dumps(x)) : x \in JsonValues}
                   \cup {PyStr("not json"), PyStr(""), Single("a", PyInt(1)), None, PyInt(5), Absent},
        keys \in {None, PyList(<<>>), PyList(<<PyStr("a")>>), PyList(<<PyStr("a"), PyStr("b")>>)}}
    \cup {<<x, PyInt(200), None>> : x \in {None, PyInt(200), PyStr("statusCode"), PyList(<<>>)}}

ListSizeInputs == {<<lo, MaxListLen>> : lo \in 0..MaxListLen}

S3Inputs ==
    {<<PyStr(bucket), PyStr("sales/2023.csv"), content>> :
        bucket \in {"test-bucket", "b"},
        content \in {PyStr(""), PyStr("date,sku,quantity\n"), PyStr("abc"), None, PyInt(5)}}

DateRangeInputs ==
    {<<PyDateTime(start), PyInt(days)>> :
        start \in {Ymd2Ord(2024, 2, 28), Ymd2Ord(2023, 12, 30)}, days \in (-1)..MaxDays}

ContextInputs ==
    {<<PyStr(name), PyInt(memory), PyInt(timeout)>> :
        name \in {"test-function", "forecast"}, memory \in {512, 128}, timeout \in {30, 0}}

Bodies ==
    {None, PyDict(<<>>), Single("a", PyInt(1)), Single("sku", PyStr("SKU001")),
     PyDict(<<[k |-> "a", v |-> None], [k |-> "b", v |-> PyStr("x")]>>),
     PyDict(<<[k |-> "items", v |-> PyList(<<PyInt(1), PyFloat(3, 2), PyBool(TRUE)>>)],
              [k |-> "user", v |-> Single("id", PyStr("u1"))]>>)}

EventInputs ==
    {<<body, path_parameters, query_parameters, headers, PyStr(http_method), PyStr(path)>> :
        body \in Bodies,
        path_parameters \in {None, PyDict(<<>>), Single("id", PyStr("1"))},
        query_parameters \in {None, Single("q", PyStr("x"))},
        headers \in {None, PyDict(<<>>), Single("Accept", PyStr("text/csv"))},
        http_method \in {"POST", "GET"},
        path \in {"/", "/forecast"}}

-----------------------------------------------------------------------------
(* One call *)

Called(name, inputs) ==
    /\ now \in Clock
    /\ fn = name
    /\ args \in inputs
    /\ result = Pending
    /\ pc = "call"
    /\ earlier = Pending

\* The call of helper `name` is about to run.
Calling(name) == pc = "call" /\ fn = name

\* The call ends with the outcome.
Finish(outcome) ==
    /\ result' = outcome
    /\ pc' = "done"
    /\ UNCHANGED <<now, fn, args, earlier>>

IsValidConfidence ==
    /\ Calling("is_valid_confidence")
    /\ Finish(is_valid_confidence(args))

IsValidForecastHorizon ==
    /\ Calling("is_valid_forecast_horizon")
    /\ Finish(is_valid_forecast_horizon(args))

IsValidDateString ==
    /\ Calling("is_valid_date_string")
    /\ Finish(is_valid_date_string(args))

HasRequiredFields ==
    /\ Calling("has_required_fields")
    /\ Finish(has_required_fields(args[1], args[2]))

CalculatePercentageDifference ==
    /\ Calling("calculate_percentage_difference")
    /\ Finish(calculate_percentage_difference(args[1], args[2]))

MockDynamodbItem ==
    /\ Calling("mock_dynamodb_item")
    /\ Finish(mock_dynamodb_item(args))

CreateSalesCsv ==
    /\ Calling("create_sales_csv")
    /\ Finish(create_sales_csv(args))

AssertApiResponse ==
    /\ Calling("assert_api_response")
    /\ Finish(assert_api_response(args[1], args[2], args[3]))

AssertForecastResultValid ==
    /\ Calling("assert_forecast_result_valid")
    /\ Finish(assert_forecast_result_valid(args))

AssertRiskAssessmentValid ==
    /\ Calling("assert_risk_assessment_valid")
    /\ Finish(assert_risk_assessment_valid(args))

SalesRecordStrategy ==
    /\ Calling("sales_record_strategy")
    /\ \E record \in sales_records(now, days_ago_draws) : Finish(Return(record))

\* The records the lists are made of: the newest and the oldest date.
sales_list_elements(clock) ==
    {sales_record(clock, days_ago, "SKU01", quantity, "grocery", PyFloat(1, 1)) :
        days_ago \in {0, MaxDaysAgo}, quantity \in quantity_draws}

\* st.lists(sales_record_strategy(), min_size=min_size, max_size=max_size)
sales_data_list(clock, min_size, max_size) ==
    {PyList(records) : records \in st_lists(sales_list_elements(clock), min_size, max_size)}

SalesDataListStrategy ==
    /\ Calling("sales_data_list_strategy")
    /\ \E records \in sales_data_list(now, args[1], args[2]) : Finish(Return(records))

FestivalEventStrategy ==
    /\ Calling("festival_event_strategy")
    /\ \E days_ahead \in {1, 365}, name \in {"Durga Puja"}, region \in region_draws,
       grocery \in multiplier_draws, apparel \in multiplier_draws,
       electronics \in multiplier_draws, duration \in {1, 10} :
        Finish(Return(festival_event(now, days_ahead, "Eid", name, region, grocery, apparel,
                                     electronics, duration, 7)))

UserProfileStrategy ==
    /\ Calling("user_profile_strategy")
    /\ \E type \in BUSINESS_TYPES, region \in REGIONS, size \in STORE_SIZES,
       has_data \in BOOLEAN, quality \in DATA_QUALITIES, horizon \in horizon_draws,
       tolerance \in RISK_TOLERANCES :
        Finish(Return(user_profile(now, "abcdefg1", "Store", type, "Pune", "Goa", region, size,
                                   has_data, quality, horizon, tolerance)))

CreateApiGatewayEvent ==
    /\ Calling("create_api_gateway_event")
    /\ Finish(create_api_gateway_event(args[1], args[2], args[3], args[4], args[5], args[6]))

CreateLambdaContext ==
    /\ Calling("create_lambda_context")
    /\ Finish(create_lambda_context(args[1], args[2], args[3]))

GenerateDateRange ==
    /\ Calling("generate_date_range")
    /\ Finish(generate_date_range(args[1], args[2]))

MockS3Object ==
    /\ Calling("mock_s3_object")
    /\ Finish(mock_s3_object(args[1], args[2], args[3]))

\* The test calls the helper once more with the same arguments, at the same
\* or a later reading of the clock; the outcome of the first call is kept.
CallAgain ==
    /\ pc = "done"
    /\ earlier = Pending
    /\ earlier' = result
    /\ result' = Pending
    /\ pc' = "call"
    /\ now' \in {clock \in Clock : clock >= now}
    /\ UNCHANGED <<fn, args>>

InvalidSalesRecordStrategy ==
    /\ Calling("invalid_sales_record_strategy")
    /\ \E record \in invalid_sales_records : Finish(Return(record))

InitValidation ==
    \/ Called("is_valid_confidence", ConfidenceInputs)
    \/ Called("is_valid_forecast_horizon", HorizonInputs)
    \/ Called("is_valid_date_string", DateInputs)
    \/ Called("has_required_fields", RequiredFieldsInputs)
    \/ Called("assert_api_response", ResponseInputs)
    \/ Called("assert_forecast_result_valid", ForecastInputs)
    \/ Called("assert_risk_assessment_valid", RiskInputs)

NextValidation ==
    \/ IsValidConfidence
    \/ IsValidForecastHorizon
    \/ IsValidDateString
    \/ HasRequiredFields
    \/ AssertApiResponse
    \/ AssertForecastResultValid
    \/ AssertRiskAssessmentValid

SpecValidation == InitValidation /\ [][NextValidation]_vars

InitConfidence == Called("is_valid_confidence", ConfidenceInputs)
SpecConfidence == InitConfidence /\ [][IsValidConfidence]_vars

InitForecast == Called("assert_forecast_result_valid", ForecastInputs)
SpecForecast == InitForecast /\ [][AssertForecastResultValid]_vars

InitRisk == Called("assert_risk_assessment_valid", RiskInputs)
SpecRisk == InitRisk /\ [][AssertRiskAssessmentValid]_vars

InitPercentage ==
    Called("calculate_percentage_difference", PercentageInputs \X PercentageInputs)
SpecPercentage == InitPercentage /\ [][CalculatePercentageDifference]_vars

InitDynamo == Called("mock_dynamodb_item", ItemInputs)
SpecDynamo == InitDynamo /\ [][MockDynamodbItem]_vars

InitCsv == Called("create_sales_csv", CsvInputs)
SpecCsv == InitCsv /\ [][CreateSalesCsv]_vars

InitSales ==
    \/ Called("sales_record_strategy", {None})
    \/ Called("sales_data_list_strategy", ListSizeInputs)
NextSales == SalesRecordStrategy \/ SalesDataListStrategy
SpecSales == InitSales /\ [][NextSales]_vars

InitInvalidSales == Called("invalid_sales_record_strategy", {None})
SpecInvalidSales == InitInvalidSales /\ [][InvalidSalesRecordStrategy]_vars

InitFestival == Called("festival_event_strategy", {None})
SpecFestival == InitFestival /\ [][FestivalEventStrategy]_vars

InitProfile ==
    \/ Called("user_profile_strategy", {None})
    \/ Called("is_valid_forecast_horizon", HorizonInputs)
NextProfile == UserProfileStrategy \/ IsValidForecastHorizon
SpecProfile == InitProfile /\ [][NextProfile]_vars

InitEvent == Called("create_api_gateway_event", EventInputs)
SpecEvent == InitEvent /\ [][CreateApiGatewayEvent]_vars

\* The helpers of utils.py, each called twice with the same arguments.
InitUtils ==
    \/ Called("create_api_gateway_event", EventInputs)
    \/ Called("create_lambda_context", ContextInputs)
    \/ Called("create_sales_csv", CsvInputs)
    \/ Called("is_valid_date_string", DateInputs)
    \/ Called("is_valid_confidence", ConfidenceInputs)
    \/ Called("is_valid_forecast_horizon", HorizonInputs)
    \/ Called("has_required_fields", RequiredFieldsInputs)
    \/ Called("generate_date_range", DateRangeInputs)
    \/ Called("mock_s3_object", S3Inputs)
    \/ Called("mock_dynamodb_item", ItemInputs)

NextUtils ==
    \/ CreateApiGatewayEvent
    \/ CreateLambdaContext
    \/ CreateSalesCsv
    \/ IsValidDateString
    \/ IsValidConfidence
    \/ IsValidForecastHorizon
    \/ HasRequiredFields
    \/ GenerateDateRange
    \/ MockS3Object
    \/ MockDynamodbItem
    \/ CallAgain

SpecUtils == InitUtils /\ [][NextUtils]_vars

Init ==
    \/ InitValidation
    \/ InitUtils
    \/ InitPercentage
    \/ InitDynamo
    \/ InitCsv
    \/ InitSales
    \/ InitFestival
    \/ InitInvalidSales
    \/ Called("user_profile_strategy", {None})

Next ==
    \/ NextValidation
    \/ NextUtils
    \/ CalculatePercentageDifference
    \/ MockDynamodbItem
    \/ CreateSalesCsv
    \/ NextSales
    \/ FestivalEventStrategy
    \/ InvalidSalesRecordStrategy
    \/ UserProfileStrategy

Spec == Init /\ [][Next]_vars

-----------------------------------------------------------------------------
(* Properties *)

Done(name) == pc = "done" /\ fn = name

True == Return(PyBool(TRUE))
False == Return(PyBool(FALSE))

\* x is a number of the closed interval [lo, hi], lo and hi integers.
Within(x, lo, hi) ==
    /\ x.t \in {"bool", "int", "float"}
    /\ Den(x) > 0
    /\ lo * Den(x) <= Num(x)
    /\ Num(x) <= hi * Den(x)

\* The tag the value is to get by its type: the bool test comes first.
RECURSIVE ClaimedTag(_)
ClaimedTag(value) ==
    CASE value.t = "str" -> Single("S", value)
      [] value.t = "bool" -> Single("BOOL", value)
      [] value.t \in {"int", "float"} -> Single("N", PyStr(PyStrOf(value)))
      [] value.t = "dict" ->
            Single("M", PyDict([i \in 1..Len(value.kv) |->
                [k |-> value.kv[i].k, v |-> ClaimedTag(value.kv[i].v)]]))
      [] value.t = "list" ->
            Single("L", PyList([i \in 1..Len(value.xs) |-> ClaimedTag(value.xs[i])]))
      [] value.t = "none" -> Single("NULL", PyBool(TRUE))

\* C1: mock_dynamodb_item keeps the keys of the item and tags every value by
\* its type: a string as S, a number as N with its str(), a boolean as BOOL, a
\* dict as M and a list as L with their values tagged in turn and in order,
\* None as NULL True.
C1_TagsEveryValueByType ==
    Done("mock_dynamodb_item") =>
        result = Return(PyDict([i \in 1..Len(args.kv) |->
                     [k |-> args.kv[i].k, v |-> ClaimedTag(args.kv[i].v)]]))

\* C2: for every number x, is_valid_confidence(x) returns True if and only if
\* 0.0 <= x <= 1.0, both ends included.
C2_ConfidenceIffInUnitInterval ==
    (Done("is_valid_confidence") /\ IsNumber(args)) =>
        result = (IF Within(args, 0, 1) THEN True ELSE False)

C2_Witness == Done("is_valid_confidence") /\ args = PyFloat(1, 1) /\ result = True

IsFinite(x) == IsNumber(x) /\ Den(x) > 0

\* C3: calculate_percentage_difference never divides by zero: with a baseline
\* of 0 it returns 0.0 when the comparison is 0 too and +infinity when it is
\* not; with another (finite) baseline and a finite comparison it returns
\* ((comparison - baseline) / baseline) * 100.
C3_PercentageDifference ==
    Done("calculate_percentage_difference") =>
        LET baseline == args[1]
            comparison == args[2]
        IN  /\ result.kind = "return"
            /\ (IsFinite(baseline) /\ Num(baseline) = 0) =>
                   result.val = (IF IsFinite(comparison) /\ Num(comparison) = 0
                                 THEN PyFloat(0, 1) ELSE PyFloat(1, 0))
            /\ (IsFinite(baseline) /\ Num(baseline) # 0 /\ IsFinite(comparison)) =>
                   /\ result.val.t = "float"
                   /\ result.val.d > 0
                   \* result * baseline = (comparison - baseline) * 100, over the
                   \* common denominator
                   /\ result.val.n * Num(baseline) * Den(comparison)
                        = 100 * result.val.d
                              * (Num(comparison) * Den(baseline) - Num(baseline) * Den(comparison))

C3_Witness ==
    /\ Done("calculate_percentage_difference")
    /\ args = <<PyInt(0), PyInt(5)>>
    /\ result = Return(PyFloat(1, 0))

\* s.split(sep) for a one-character sep.
RECURSIVE Split(_, _)
Split(s, sep) ==
    LET at == {i \in 1..Len(s) : Char(s, i) = sep}
    IN  IF at = {} THEN <<s>>
        ELSE LET p == CHOOSE i \in at : \A j \in at : i <= j
             IN  <<Slice(s, 1, p - 1)>> \o Split(Slice(s, p + 1, Len(s)), sep)

\* C4: create_sales_csv returns "date,sku,quantity\n" for no records; otherwise
\* a header line of the first record's keys joined by commas, then one line
\* per record, in order, separated by newlines, of the str() of the record's
\* value for each header key, empty when the record lacks the key.
C4_SalesCsvLayout ==
    Done("create_sales_csv") =>
        /\ result.kind = "return"
        /\ result.val.t = "str"
        /\ Len(args) = 0 => result.val.s = "date,sku,quantity\n"
        /\ args = <<ExampleRecord>> => result.val.s = "date,sku,quantity\n2023-10-01,SKU001,10"
        /\ Len(args) > 0 =>
              LET lines == Split(result.val.s, "\n")
                  headers == Keys(args[1])
              IN  /\ Len(lines) = Len(args) + 1
                  /\ lines[1] = Join(",", headers)
                  /\ \A i \in 1..Len(args) :
                        lines[i + 1] = Join(",", [j \in 1..Len(headers) |->
                            IF HasKey(args[i], headers[j])
                            THEN PyStrOf(Get(args[i], headers[j])) ELSE ""])

C4_Witness ==
    /\ Done("create_sales_csv")
    /\ Len(args) = 2
    /\ args[1] = ExampleRecord
    /\ Keys(args[2]) = <<"sku", "price">>
    /\ result = Return(PyStr("date,sku,quantity\n2023-10-01,SKU001,10\n,SKU002,"))

\* A sales record with its required fields, a positive int quantity and a date
\* string that is_valid_date_string accepts.
ValidSalesRecord(record) ==
    /\ record.t = "dict"
    /\ \A key \in {"date", "sku", "quantity"} : HasKey(record, key)
    /\ Get(record, "quantity").t = "int"
    /\ Get(record, "quantity").i > 0
    /\ Get(record, "date").t = "str"
    /\ is_valid_date_string(Get(record, "date")) = True

\* C5: every record of sales_record_strategy, and every element of every list
\* of sales_data_list_strategy (never empty when min_size >= 1), has date, sku
\* and quantity, an int quantity > 0 and a date is_valid_date_string accepts.
C5_GeneratedSalesRecordsValid ==
    /\ Done("sales_record_strategy") =>
          result.kind = "return" /\ ValidSalesRecord(result.val)
    /\ Done("sales_data_list_strategy") =>
          /\ result.kind = "return"
          /\ result.val.t = "list"
          /\ args[1] >= 1 => Len(result.val.xs) > 0
          /\ \A i \in 1..Len(result.val.xs) : ValidSalesRecord(result.val.xs[i])

C5_Witness ==
    /\ Done("sales_record_strategy")
    /\ Get(result.val, "date") = PyStr("2024-02-29")
    /\ Get(result.val, "quantity") = PyInt(1)

\* C6: every event of festival_event_strategy has all its demandMultipliers in
\* [1.0, 5.0] and a region that is a list of 1 to 3 distinct region names.
C6_FestivalMultipliersAndRegion ==
    Done("festival_event_strategy") =>
        LET multipliers == Get(result.val, "demandMultipliers")
            region == Get(result.val, "region")
        IN  /\ Len(multipliers.kv) = 3
            /\ \A i \in 1..Len(multipliers.kv) : Within(multipliers.kv[i].v, 1, 5)
            /\ region.t = "list"
            /\ Len(region.xs) >= 1
            /\ Len(region.xs) <= 3
            /\ \A i \in 1..Len(region.xs) :
                  region.xs[i].t = "str" /\ region.xs[i].s \in REGIONS
            /\ \A i, j \in 1..Len(region.xs) : i # j => region.xs[i] # region.xs[j]

C6_Witness ==
    /\ Done("festival_event_strategy")
    /\ Get(Get(result.val, "demandMultipliers"), "grocery") = PyFloat(1, 1)
    /\ Get(Get(result.val, "demandMultipliers"), "electronics") = PyFloat(5, 1)
    /\ Len(Get(result.val, "region").xs) = 3

\* C7: every profile of user_profile_strategy has preferences.forecastHorizon
\* in [7, 14], which is_valid_forecast_horizon accepts; and
\* is_valid_forecast_horizon returns False for every horizon below 7 or above 14.
C7_ForecastHorizonRange ==
    /\ Done("user_profile_strategy") =>
          LET horizon == Get(Get(result.val, "preferences"), "forecastHorizon")
          IN  /\ horizon.t = "int"
              /\ 7 <= horizon.i
              /\ horizon.i <= 14
              /\ is_valid_forecast_horizon(horizon) = True
    /\ (Done("is_valid_forecast_horizon") /\ IsNumber(args) /\ ~IsNaN(args)
            /\ ~Within(args, 7, 14)) => result = False

C7_Witness ==
    /\ Done("user_profile_strategy")
    /\ Get(Get(result.val, "preferences"), "forecastHorizon") = PyInt(14)

\* The object has the field, and it is not None.
Has(obj, field) == obj.t = "dict" /\ HasKey(obj, field) /\ Get(obj, field) # None

\* x <= y on numbers.
Ordered(x, y) ==
    /\ IsNumber(x) /\ IsNumber(y)
    /\ ~IsNaN(x) /\ ~IsNaN(y)
    /\ IF Den(x) = 0 \/ Den(y) = 0
       THEN (Den(x) = 0 /\ Num(x) < 0) \/ (Den(y) = 0 /\ Num(y) > 0)
       ELSE Num(x) * Den(y) <= Num(y) * Den(x)

ValidPrediction(prediction) ==
    /\ \A field \in {"date", "demandForecast", "lowerBound", "upperBound"} :
          Has(prediction, field)
    /\ Get(prediction, "date").t = "str"
    /\ is_valid_date_string(Get(prediction, "date")) = True
    /\ Ordered(PyInt(0), Get(prediction, "demandForecast"))
    /\ Ordered(Get(prediction, "lowerBound"), Get(prediction, "demandForecast"))
    /\ Ordered(Get(prediction, "demandForecast"), Get(prediction, "upperBound"))

ValidForecast(forecast) ==
    /\ \A field \in {"sku", "category", "predictions", "confidence", "methodology"} :
          Has(forecast, field)
    /\ Within(Get(forecast, "confidence"), 0, 1)
    /\ Get(forecast, "methodology") \in {PyStr("ml"), PyStr("pattern"), PyStr("hybrid")}
    /\ Get(forecast, "predictions").t = "list"
    /\ Len(Get(forecast, "predictions").xs) > 0
    /\ \A i \in 1..Len(Get(forecast, "predictions").xs) :
          ValidPrediction(Get(forecast, "predictions").xs[i])

\* C8: assert_forecast_result_valid completes exactly when the forecast has
\* non-None sku, category, predictions, confidence and methodology, a
\* confidence in [0, 1], a methodology among ml, pattern, hybrid, a non-empty
\* list of predictions, each with a valid ISO date, demandForecast >= 0 and
\* lowerBound <= demandForecast <= upperBound; and every other forecast fails
\* an assertion.
C8_ForecastPassesOrFailsAssertion ==
    Done("assert_forecast_result_valid") =>
        /\ result = Return(None) <=> ValidForecast(args)
        /\ ~ValidForecast(args) => result = Raise("AssertionError")

\* The part of C8 that does not say how a forecast is rejected.
C8_ForecastPassesIffValid ==
    Done("assert_forecast_result_valid") => (result = Return(None) <=> ValidForecast(args))

ValidRiskPart(part, fields) ==
    /\ \A field \in fields : Has(part, field)
    /\ Within(Get(part, "probability"), 0, 1)

ValidRecommendation(recommendation) ==
    /\ \A field \in {"action", "suggestedQuantity", "urgency", "confidence"} :
          Has(recommendation, field)
    /\ Get(recommendation, "action") \in {PyStr("reorder"), PyStr("reduce"), PyStr("maintain")}
    /\ Get(recommendation, "urgency") \in {PyStr("low"), PyStr("medium"), PyStr("high")}
    /\ Within(Get(recommendation, "confidence"), 0, 1)

ValidRisk(risk) ==
    /\ \A field \in {"sku", "category", "currentStock", "stockoutRisk", "overstockRisk",
                     "recommendation"} : Has(risk, field)
    /\ ValidRiskPart(Get(risk, "stockoutRisk"),
                     {"probability", "daysUntilStockout", "potentialLostSales"})
    /\ ValidRiskPart(Get(risk, "overstockRisk"), {"probability", "excessUnits", "carryingCost"})
    /\ ValidRecommendation(Get(risk, "recommendation"))

\* C9: assert_risk_assessment_valid completes without an assertion failure
\* exactly when the risk assessment has non-None sku, category, currentStock,
\* stockoutRisk, overstockRisk and recommendation; both risks have their three
\* fields and a probability in [0, 1]; and the recommendation has its four
\* fields, an action among reorder, reduce, maintain, an urgency among low,
\* medium, high and a confidence in [0, 1].
C9_RiskPassesIffValid ==
    Done("assert_risk_assessment_valid") => (result = Return(None) <=> ValidRisk(args))

C9_Witness ==
    /\ Done("assert_risk_assessment_valid")
    /\ ValidRisk(args)
    /\ Get(Get(args, "recommendation"), "urgency") = PyStr("high")
    /\ Get(Get(args, "recommendation"), "action") = PyStr("maintain")
    /\ result = Return(None)

\* C10: the validation helpers signal a failure only by returning False
\* (is_valid_date_string, is_valid_confidence, is_valid_forecast_horizon,
\* has_required_fields) or by an assertion failure (assert_api_response,
\* assert_forecast_result_valid, assert_risk_assessment_valid), whatever the
\* input: no other exception escapes.
C10_OnlyFalseOrAssertionFailure ==
    /\ (pc = "done" /\ fn \in {"is_valid_date_string", "is_valid_confidence",
                               "is_valid_forecast_horizon", "has_required_fields"}) =>
          result \in {True, False}
    /\ (pc = "done" /\ fn \in {"assert_api_response", "assert_forecast_result_valid",
                               "assert_risk_assessment_valid"}) =>
          (result.kind = "return" \/ result = Raise("AssertionError"))

\* C11: the helpers of utils.py are pure functions of their arguments: a
\* second call with equal arguments ends with the same outcome as the first,
\* whenever it is made.  (No helper assigns to its arguments or to anything
\* but its locals, so the arguments of the second call are those of the first.)
C11_EqualArgumentsEqualResults ==
    (pc = "done" /\ earlier # Pending) => result = earlier

\* The helpers other than mock_s3_object do end both calls alike.
C11_AllButMockS3Object ==
    (pc = "done" /\ earlier # Pending /\ fn # "mock_s3_object") => result = earlier

\* The envelope but for its body: the defaults and the subject of the claims.
EnvelopeDefaults(event) ==
    /\ args[2] = None => Get(event, "pathParameters") = PyDict(<<>>)
    /\ args[3] = None => Get(event, "queryStringParameters") = PyDict(<<>>)
    /\ args[4] = None =>
          Get(event, "headers") = Single("Content-Type", PyStr("application/json"))
    /\ Get(Get(Get(Get(event, "requestContext"), "authorizer"), "claims"), "sub")
          = PyStr("test-user-123")

\* C12: create_api_gateway_event returns an envelope whose body is the JSON
\* text of the body argument whenever a body dict is supplied and None when
\* none is; pathParameters and queryStringParameters default to empty dicts,
\* headers to Content-Type application/json, and the authorizer claims always
\* carry the subject test-user-123.
C12_EventEnvelope ==
    Done("create_api_gateway_event") =>
        /\ result.kind = "return"
        /\ args[1].t = "dict" => Get(result.val, "body") = PyStr(json_dumps(args[1]))
        /\ args[1] = None => Get(result.val, "body") = None
        /\ EnvelopeDefaults(result.val)

\* What does hold: the body is serialized when the dict supplied is not empty.
C12_EnvelopeForNonEmptyBody ==
    Done("create_api_gateway_event") =>
        /\ result.kind = "return"
        /\ (args[1].t = "dict" /\ Len(args[1].kv) > 0) =>
              Get(result.val, "body") = PyStr(json_dumps(args[1]))
        /\ (args[1] = None \/ args[1] = PyDict(<<>>)) => Get(result.val, "body") = None
        /\ EnvelopeDefaults(result.val)

\* The record lacks a required field, or holds invalid data in one: a date
\* is_valid_date_string rejects, a sku that is None or shorter than the
\* minimum of sales_record_strategy, a quantity that is no int above 0.
InvalidSalesRecord(record) ==
    \/ \E key \in {"date", "sku", "quantity"} : ~HasKey(record, key)
    \/ is_valid_date_string(Get(record, "date")) # True
    \/ Get(record, "sku") = None
    \/ (Get(record, "sku").t = "str" /\ Len(Get(record, "sku").s) < MinSkuSize)
    \/ ~(Get(record, "quantity").t = "int" /\ Get(record, "quantity").i > 0)

\* C13: every record of invalid_sales_record_strategy is invalid, whatever its
\* draws: it lacks one of date, sku, quantity, or holds invalid data in one of
\* them; it never meets the constraints of sales_record_strategy.
C13_InvalidRecordsAreInvalid ==
    Done("invalid_sales_record_strategy") =>
        /\ result.kind = "return"
        /\ result.val.t = "dict"
        /\ InvalidSalesRecord(result.val)
        /\ ~ValidSalesRecord(result.val)

\* All three fields are drawn, the quantity a positive float.
C13_Witness ==
    /\ Done("invalid_sales_record_strategy")
    /\ Keys(result.val) = <<"date", "sku", "quantity">>
    /\ Get(result.val, "date") = PyStr("20231")
    /\ Get(result.val, "sku") = PyStr("A1")
    /\ Get(result.val, "quantity") = PyFloat(1, 1)

=============================================================================
